---- MODULE Spec2Model ----
(***************************************************************************)
(* FSE route finder: CityPair aggregation (airport.py, classes.py), the    *)
(* job fetch (jobs.py), the pruner sort_routes and the recursive expander  *)
(* advance_route / get_route (routes.py).                                  *)
(*                                                                         *)
(* The specifications of the module:                                       *)
(*   SpecCityPair  one CityPair under add_cargo / add_pax / add_vip        *)
(*   SpecSort      sort_routes applied to a list of Routes                 *)
(*   Spec          get_route: seed, then advance_route round by round      *)
(*   SpecJobs      one call of get_jobs (airport.py or jobs.py) on a file  *)
(*   SpecExtend    advance_route's inner loop on list objects of a heap    *)
(*   SpecMain      main.py's own copy of the search                        *)
(***************************************************************************)
EXTENDS Integers, Sequences, FiniteSets, TLC

VARIABLES
    cp,            \* SpecCityPair: the CityPair object under mutation
    sort_in,       \* SpecSort: the list handed to sort_routes
    sort_w,        \* SpecSort: max_routes handed to sort_routes
    sort_out,      \* SpecSort: what sort_routes returned
    sort_pc,       \* SpecSort: "build" | "sorted"
    start_icao,    \* Spec: get_route's arguments
    num_steps,
    max_jobs,
    max_routes,
    allow_reverse,
    files,         \* Spec: the <icao>.xml files on disk (jobs.py:20-35)
    routes,        \* Spec: advance_route's argument `routes` / get_route's `routes`
    new_routes,    \* Spec: advance_route's local `new_routes`
    idx,           \* Spec: position of `for old_route in routes`
    step,          \* Spec: advance_route's `step` / get_route's `steps`
    pc,            \* Spec: "seed" | "expand" | "prune" | "done" | "exit" | "error"
    log,           \* Spec: history: the number of get_jobs calls, and the size of
                   \*       each generation before it was pruned
    job_module,    \* SpecJobs: whose get_jobs is called, "airport" | "jobs"
    job_icao,      \* SpecJobs: get_jobs' argument icao
    job_limit,     \* SpecJobs: get_jobs' argument max_jobs
    job_file,      \* SpecJobs: the document the server answers with
    job_out,       \* SpecJobs: the outcome of the call
    job_pc,        \* SpecJobs: "build" | "called"
    heap,          \* SpecExtend: the list objects, by reference
    ext_old,       \* SpecExtend: old_route; its cps is a reference into heap
    ext_cps,       \* SpecExtend: the candidates `cps` of the inner loop
    ext_i,         \* SpecExtend: position of `for cp in cps`
    ext_new,       \* SpecExtend: new_routes
    ext_reverse    \* SpecExtend: allow_reverse

vars == <<cp, sort_in, sort_w, sort_out, sort_pc, start_icao, num_steps, max_jobs,
          max_routes, allow_reverse, files, routes, new_routes, idx, step, pc, log,
          job_module, job_icao, job_limit, job_file, job_out, job_pc,
          heap, ext_old, ext_cps, ext_i, ext_new, ext_reverse>>

cpVars == <<cp>>
sortVars == <<sort_in, sort_w, sort_out, sort_pc>>
searchVars == <<start_icao, num_steps, max_jobs, max_routes, allow_reverse, files,
                routes, new_routes, idx, step, pc, log>>
jobsVars == <<job_module, job_icao, job_limit, job_file, job_out, job_pc>>
extVars == <<heap, ext_old, ext_cps, ext_i, ext_new, ext_reverse>>

-----------------------------------------------------------------------------
(* Bounds of the model. *)

MaxPay == 2        \* a job pays 0..MaxPay
MaxAmount == 2     \* a job carries 1..MaxAmount kg / passengers
MaxAdds == 3       \* add_* calls on the CityPair of SpecCityPair
MaxList == 3       \* routes in the list handed to sort_routes in SpecSort
MaxW == 2          \* beam width (max_routes)
MaxB == 2          \* branching factor (max_jobs)
MaxN == 3
MaxFile == 3          \* number of legs asked for (num_steps)

-----------------------------------------------------------------------------
(* Numbers.  Python's true division of two ints is kept as the exact       *)
(* fraction <<numerator, denominator>>, denominator > 0; fractions are     *)
(* compared by cross multiplication (for values of this size the float    *)
(* quotients compare exactly as the fractions do).                         *)

(* a / b raises ZeroDivisionError when b is 0; the raised error is kept as a *)
(* value apart from every fraction.                                         *)
ZeroDivisionError == <<0, 0>>

Quot(a, b) == IF b = 0 THEN ZeroDivisionError ELSE <<a, b>>

Zero == <<0, 1>>

QLess(p, q) == p[1] * q[2] < q[1] * p[2]

QEq(p, q) == p[1] * q[2] = q[1] * p[2]

Min(a, b) == IF a < b THEN a ELSE b

Max(a, b) == IF a < b THEN b ELSE a

Abs(a) == IF a < 0 THEN -a ELSE a

RECURSIVE SumSeq(_)
SumSeq(s) == IF s = <<>> THEN 0 ELSE Head(s) + SumSeq(Tail(s))

(* seq[:k] of Python: a negative k counts from the end. *)
Slice(s, k) ==
    IF k >= 0 THEN SubSeq(s, 1, Min(k, Len(s)))
    ELSE SubSeq(s, 1, Max(Len(s) + k, 0))

-----------------------------------------------------------------------------
(* The airport directory (icaodata.csv).  A, B and C are in it; X is an    *)
(* ICAO code that is not.  The great-circle distance of find_range is      *)
(* abstracted to the distance of integer coordinates on a line, truncated  *)
(* like int(): an airport is 0 nm from itself.                             *)

Known == {"A", "B", "C"}

Icaos == Known \cup {"X"}

apt == [i \in Known |-> CASE i = "A" -> 0 [] i = "B" -> 1 [] i = "C" -> 2]

FALLBACK == 100

find_range(ICAO1, ICAO2) ==
    IF ICAO1 \notin DOMAIN apt \/ ICAO2 \notin DOMAIN apt
    THEN FALLBACK
    ELSE Abs(apt[ICAO2] - apt[ICAO1])

-----------------------------------------------------------------------------
(* CityPair.  `module` records which class the object is an instance of:   *)
(* airport.CityPair guards the division with try/except, classes.CityPair  *)
(* with `if self.length`.                                                  *)

Modules == {"airport", "classes"}

CityPair(module, origin, destination) ==
    [module |-> module,
     origin |-> origin,
     destination |-> destination,
     length |-> find_range(origin, destination),
     leg |-> <<origin, destination>>,
     cargo |-> 0, cargo_jobs |-> 0, cargo_value |-> 0,
     pax |-> 0, pax_jobs |-> 0, pax_value |-> 0,
     vips |-> 0, vip_jobs |-> 0, vip_value |-> 0,
     total_jobs |-> 0, total_value |-> 0,
     dollars_per_nm |-> Zero]

(* airport.py without the try/except: the division's outcome is stored. *)
airport_update_totals_unguarded(c) ==
    LET t == [c EXCEPT !.total_jobs = c.cargo_jobs + c.pax_jobs + c.vip_jobs,
                       !.total_value = c.cargo_value + c.pax_value + c.vip_value]
    IN  [t EXCEPT !.dollars_per_nm = Quot(t.total_value, t.length)]

(* airport.py: try: total_value / length  except: 0 *)
airport_update_totals(c) ==
    LET t == [c EXCEPT !.total_jobs = c.cargo_jobs + c.pax_jobs + c.vip_jobs,
                       !.total_value = c.cargo_value + c.pax_value + c.vip_value]
        q == Quot(t.total_value, t.length)
    IN  [t EXCEPT !.dollars_per_nm = IF q = ZeroDivisionError THEN Zero ELSE q]

(* classes.py: if self.length: total_value / length, else left as it was *)
classes_update_totals(c) ==
    LET t == [c EXCEPT !.total_jobs = c.cargo_jobs + c.pax_jobs + c.vip_jobs,
                       !.total_value = c.cargo_value + c.pax_value + c.vip_value]
    IN  IF t.length # 0
        THEN [t EXCEPT !.dollars_per_nm = Quot(t.total_value, t.length)]
        ELSE t

update_totals(c) ==
    IF c.module = "airport" THEN airport_update_totals(c) ELSE classes_update_totals(c)

add_cargo(c, weight, value) ==
    update_totals([c EXCEPT !.cargo = @ + weight,
                            !.cargo_value = @ + value,
                            !.cargo_jobs = @ + 1])

add_pax(c, n, value) ==
    update_totals([c EXCEPT !.pax = @ + n,
                            !.pax_value = @ + value,
                            !.pax_jobs = @ + 1])

(* add_vip that forgets to call update_totals. *)
add_vip_stale(c, n, value) ==
    [c EXCEPT !.vips = @ + n, !.vip_value = @ + value, !.vip_jobs = @ + 1]

add_vip(c, n, value) ==
    update_totals([c EXCEPT !.vips = @ + n,
                            !.vip_value = @ + value,
                            !.vip_jobs = @ + 1])

-----------------------------------------------------------------------------
(* Route (classes.py).  Route(cp) of a single CityPair is Route(<<cp>>).   *)
(* self.value / self.length raises when the legs' lengths sum to 0: the    *)
(* record then carries ZeroDivisionError and the caller stops on it.       *)

(* A Route whose value leaves out the leg appended last. *)
Route_stale_value(city_pairs) ==
    LET kept == IF Len(city_pairs) > 1
                THEN SubSeq(city_pairs, 1, Len(city_pairs) - 1)
                ELSE city_pairs
        value == SumSeq([i \in DOMAIN kept |-> kept[i].total_value])
        length == SumSeq([i \in DOMAIN city_pairs |-> city_pairs[i].length])
    IN  [cps |-> city_pairs,
         legs |-> {city_pairs[i].leg : i \in DOMAIN city_pairs},
         value |-> value,
         length |-> length,
         dollars_per_nm |-> Quot(value, length)]

Route(city_pairs) ==
    LET value == SumSeq([i \in DOMAIN city_pairs |-> city_pairs[i].total_value])
        length == SumSeq([i \in DOMAIN city_pairs |-> city_pairs[i].length])
    IN  [cps |-> city_pairs,
         legs |-> {city_pairs[i].leg : i \in DOMAIN city_pairs},
         value |-> value,
         length |-> length,
         dollars_per_nm |-> Quot(value, length)]

Raised(r) == r.dollars_per_nm = ZeroDivisionError

-----------------------------------------------------------------------------
(* sorted(xs, key=lambda x: x.dollars_per_nm, reverse=True): Python's sort *)
(* is stable, and reverse=True keeps the original order of equal keys.     *)

RECURSIVE insert_desc(_, _)
insert_desc(s, x) ==
    IF s = <<>> THEN <<x>>
    ELSE IF QLess(Head(s).dollars_per_nm, x.dollars_per_nm)
         THEN <<x>> \o s
         ELSE <<Head(s)>> \o insert_desc(Tail(s), x)

(* A sort that puts a later element before the earlier ones of equal key. *)
RECURSIVE insert_desc_unstable(_, _)
insert_desc_unstable(s, x) ==
    IF s = <<>> THEN <<x>>
    ELSE IF ~QLess(x.dollars_per_nm, Head(s).dollars_per_nm)
         THEN <<x>> \o s
         ELSE <<Head(s)>> \o insert_desc_unstable(Tail(s), x)

(* A sort without reverse=True: ascending. *)
RECURSIVE insert_asc(_, _)
insert_asc(s, x) ==
    IF s = <<>> THEN <<x>>
    ELSE IF QLess(x.dollars_per_nm, Head(s).dollars_per_nm)
         THEN <<x>> \o s
         ELSE <<Head(s)>> \o insert_asc(Tail(s), x)

RECURSIVE sorted_unstable(_)
sorted_unstable(xs) ==
    IF xs = <<>> THEN <<>>
    ELSE insert_desc_unstable(sorted_unstable(SubSeq(xs, 1, Len(xs) - 1)), xs[Len(xs)])

RECURSIVE sorted_asc(_)
sorted_asc(xs) ==
    IF xs = <<>> THEN <<>>
    ELSE insert_asc(sorted_asc(SubSeq(xs, 1, Len(xs) - 1)), xs[Len(xs)])

RECURSIVE sorted_desc(_)
sorted_desc(xs) ==
    IF xs = <<>> THEN <<>>
    ELSE insert_desc(sorted_desc(SubSeq(xs, 1, Len(xs) - 1)), xs[Len(xs)])

(* sort_routes that returns the whole sorted list. *)
sort_routes_uncut(rs, w) == sorted_desc(rs)

(* routes.py: sorted(...)[:min(len(routes), max_routes)] *)
sort_routes(rs, w) == Slice(sorted_desc(rs), Min(Len(rs), w))

-----------------------------------------------------------------------------
(* get_jobs (jobs.py).  An <icao>.xml file holds either an <Error> or a    *)
(* list of <Assignment> entries [Location, ToIcao, Amount, Pay, UnitType,  *)
(* Type].  The dict `cps` is kept as the sequence of its values in         *)
(* insertion order, which is the order cps.values() yields.                *)

NoFile == [exists |-> FALSE, error |-> FALSE, jobs |-> <<>>]

XmlFile(error, jobs) == [exists |-> TRUE, error |-> error, jobs |-> jobs]

IndexOf(cps, ident) ==
    IF \E i \in DOMAIN cps : cps[i].leg = ident
    THEN CHOOSE i \in DOMAIN cps : cps[i].leg = ident
    ELSE 0

(* int(j.Amount.text) and int(float(j.Pay.text)): the texts the server     *)
(* sends are decimal numerals; any other text makes int() or float() raise *)
(* ValueError.                                                             *)
is_int(text) == text \in {"0", "1", "2", "3"}

int(text) ==
    CASE text = "0" -> 0 [] text = "1" -> 1 [] text = "2" -> 2 [] text = "3" -> 3

is_float(text) == text \in {"0.00", "1.00", "2.00", "3.00"}

int_float(text) ==
    CASE text = "0.00" -> 0 [] text = "1.00" -> 1
      [] text = "2.00" -> 2 [] text = "3.00" -> 3

(* jobs.py:77-78 raise on this entry. *)
ValueError(j) == ~is_int(j.Amount) \/ ~is_float(j.Pay)

(* One pass of `for j in jobs` (jobs.py:70-89). *)
add_job(cps, j) ==
    LET ident == <<j.Location, j.ToIcao>>
        known == IF IndexOf(cps, ident) = 0
                 THEN Append(cps, CityPair("classes", ident[1], ident[2]))
                 ELSE cps
        k == IndexOf(known, ident)
        amount == int(j.Amount)
        pay == int_float(j.Pay)
    IN  [known EXCEPT ![k] =
            IF j.UnitType = "kg" THEN add_cargo(@, amount, pay)
            ELSE IF j.Type = "VIP" THEN add_vip(@, amount, pay)
            ELSE add_pax(@, amount, pay)]

RECURSIVE aggregate(_, _)
aggregate(cps, jobs) ==
    IF jobs = <<>> THEN cps ELSE aggregate(add_job(cps, Head(jobs)), Tail(jobs))

(* jobs.py:59-93, from the parsed file on. *)
get_jobs(file, limit) ==
    IF file.error THEN <<>>
    ELSE LET sorted_cps == sorted_desc(aggregate(<<>>, file.jobs))
         IN  Slice(sorted_cps, Min(Len(sorted_cps), limit))

-----------------------------------------------------------------------------
(* get_jobs as a whole call.  It returns a list, or int() / float() raise  *)
(* ValueError out of it (nothing catches it), or the download fails and    *)
(* the except branch calls exit().                                         *)

returned(cps) == [outcome |-> "returned", cps |-> cps]

raised == [outcome |-> "ValueError", cps |-> <<>>]

exited == [outcome |-> "exit", cps |-> <<>>]

AnyValueError(jobs) == \E k \in DOMAIN jobs : ValueError(jobs[k])

(* jobs.py:59-93 *)
jobs_get_jobs(file, limit) ==
    IF file.error THEN returned(<<>>)
    ELSE IF AnyValueError(file.jobs) THEN raised
    ELSE returned(get_jobs(file, limit))

(* A get_jobs that aggregates the All-In assignments too. *)
not_all_in_unfiltered(jobs) == jobs

(* airport.py:220: jobs = [j for j in jobs if j.Type.text != "All-In"] *)
not_all_in(jobs) ==
    LET keep(j) == j.Type # "All-In" IN SelectSeq(jobs, keep)

(* One pass of `for j in jobs` (airport.py:226-245). *)
airport_add_job(cps, j) ==
    LET ident == <<j.Location, j.ToIcao>>
        known == IF IndexOf(cps, ident) = 0
                 THEN Append(cps, CityPair("airport", ident[1], ident[2]))
                 ELSE cps
        k == IndexOf(known, ident)
        amount == int(j.Amount)
        pay == int_float(j.Pay)
    IN  [known EXCEPT ![k] =
            IF j.UnitType = "kg" THEN add_cargo(@, amount, pay)
            ELSE IF j.Type = "VIP" THEN add_vip(@, amount, pay)
            ELSE add_pax(@, amount, pay)]

RECURSIVE airport_aggregate(_, _)
airport_aggregate(cps, jobs) ==
    IF jobs = <<>> THEN cps
    ELSE airport_aggregate(airport_add_job(cps, Head(jobs)), Tail(jobs))

(* airport.py:176-178 and 211-249 *)
airport_get_jobs(icao, file, limit) ==
    IF icao \notin DOMAIN apt THEN returned(<<>>)
    ELSE IF file.error THEN returned(<<>>)
    ELSE LET jobs == not_all_in(file.jobs)
             sorted_cps == sorted_desc(airport_aggregate(<<>>, jobs))
         IN  IF AnyValueError(jobs) THEN raised
             ELSE returned(Slice(sorted_cps, Min(Len(sorted_cps), limit)))

-----------------------------------------------------------------------------
(* advance_route / get_route (routes.py).                                  *)

Reverse(leg) == <<leg[2], leg[1]>>

(* The test of routes.py:39-42 without its first branch. *)
accepts_repeats(old_route, c, reverse_ok) ==
    ~(~reverse_ok /\ Reverse(c.leg) \in old_route.legs)

(* The test of routes.py:39-42 without its second branch. *)
accepts_reverse(old_route, c, reverse_ok) ==
    ~(c.leg \in old_route.legs)

(* routes.py:39-43: the leg is appended unless one of the two branches     *)
(* continues.                                                              *)
accepts(old_route, c, reverse_ok) ==
    IF c.leg \in old_route.legs THEN FALSE
    ELSE IF ~reverse_ok /\ Reverse(c.leg) \in old_route.legs THEN FALSE
    ELSE TRUE

(* routes.py:37-47: the routes one old route contributes to new_routes. *)
RECURSIVE extend(_, _, _)
extend(old_route, cps, reverse_ok) ==
    IF cps = <<>> THEN <<>>
    ELSE (IF accepts(old_route, Head(cps), reverse_ok)
          THEN <<Route(Append(old_route.cps, Head(cps)))>>
          ELSE <<>>) \o extend(old_route, Tail(cps), reverse_ok)

(* An expander that keeps a route it could not extend. *)
contribution_kept(old_route, cps, reverse_ok) ==
    IF extend(old_route, cps, reverse_ok) = <<>>
    THEN <<old_route>>
    ELSE extend(old_route, cps, reverse_ok)

(* What one pass of `for old_route in routes` adds to new_routes. *)
contribution(old_route, cps, reverse_ok) == extend(old_route, cps, reverse_ok)

(* A prune step that falls back to the routes it was given. *)
pruned_or_fallback(old_routes, generation, w) ==
    IF generation = <<>> THEN old_routes ELSE sort_routes(generation, w)

(* routes.py:50: new_routes = sort_routes(new_routes, max_routes) *)
pruned(old_routes, generation, w) == sort_routes(generation, w)

AnyRaised(rs) == \E i \in DOMAIN rs : Raised(rs[i])

-----------------------------------------------------------------------------
(* SpecCityPair: a freshly constructed CityPair, then add_* calls.         *)

IdleCityPair == cp = CityPair("classes", "X", "X")

IdleSearch ==
    /\ start_icao = "A" /\ num_steps = 1 /\ max_jobs = 1 /\ max_routes = 1
    /\ allow_reverse = FALSE /\ files = [i \in Icaos |-> NoFile]
    /\ routes = <<>> /\ new_routes = <<>> /\ idx = 0 /\ step = 0
    /\ pc = "idle" /\ log = [fetches |-> 0, sizes |-> <<>>]

IdleSort ==
    sort_in = <<>> /\ sort_w = 0 /\ sort_out = <<>> /\ sort_pc = "build"

IdleJobs ==
    /\ job_module = "jobs" /\ job_icao = "X" /\ job_limit = 0
    /\ job_file = NoFile /\ job_out = <<>> /\ job_pc = "build"

IdleExtend ==
    /\ heap = <<>> /\ ext_old = <<>> /\ ext_cps = <<>>
    /\ ext_i = 0 /\ ext_new = <<>> /\ ext_reverse = FALSE

InitCityPair ==
    /\ \E m \in Modules, o \in Icaos, d \in Icaos : cp = CityPair(m, o, d)
    /\ IdleSort /\ IdleSearch /\ IdleJobs /\ IdleExtend

Calls(c) == c.cargo_jobs + c.pax_jobs + c.vip_jobs

AddCargo ==
    /\ Calls(cp) < MaxAdds
    /\ \E weight \in 1..MaxAmount, value \in 0..MaxPay : cp' = add_cargo(cp, weight, value)
    /\ UNCHANGED <<sortVars, searchVars, jobsVars, extVars>>

AddPax ==
    /\ Calls(cp) < MaxAdds
    /\ \E n \in 1..MaxAmount, value \in 0..MaxPay : cp' = add_pax(cp, n, value)
    /\ UNCHANGED <<sortVars, searchVars, jobsVars, extVars>>

AddVip ==
    /\ Calls(cp) < MaxAdds
    /\ \E n \in 1..MaxAmount, value \in 0..MaxPay : cp' = add_vip(cp, n, value)
    /\ UNCHANGED <<sortVars, searchVars, jobsVars, extVars>>

NextCityPair == AddCargo \/ AddPax \/ AddVip

SpecCityPair == InitCityPair /\ [][NextCityPair]_vars

-----------------------------------------------------------------------------
(* SpecSort: sort_routes on a list of Routes built one by one.  The routes *)
(* are single legs between known airports carrying one passenger job.      *)

SortLegs == {<<"A", "B">>, <<"A", "C">>, <<"B", "C">>}

SortPool ==
    {Route(<<add_pax(CityPair("classes", l[1], l[2]), 1, pay)>>) :
        l \in SortLegs, pay \in 1..MaxPay}

InitSort ==
    /\ sort_in = <<>> /\ sort_out = <<>> /\ sort_pc = "build"
    /\ sort_w \in -1..MaxW
    /\ IdleCityPair /\ IdleSearch /\ IdleJobs /\ IdleExtend

SortAppend ==
    /\ sort_pc = "build" /\ Len(sort_in) < MaxList
    /\ \E r \in SortPool : sort_in' = Append(sort_in, r)
    /\ UNCHANGED <<sort_w, sort_out, sort_pc, cpVars, searchVars, jobsVars, extVars>>

SortRoutes ==
    /\ sort_pc = "build"
    /\ sort_out' = sort_routes(sort_in, sort_w)
    /\ sort_pc' = "sorted"
    /\ UNCHANGED <<sort_in, sort_w, cpVars, searchVars, jobsVars, extVars>>

NextSort == SortAppend \/ SortRoutes

SpecSort == InitSort /\ [][NextSort]_vars

-----------------------------------------------------------------------------
(* Spec: get_route(start_icao, num_steps, max_jobs, max_routes,            *)
(* allow_reverse).  The FSE server answers a download with a transport     *)
(* failure, an <Error> document or a list of assignments leaving the       *)
(* queried airport; the answer is saved as <icao>.xml and read from there  *)
(* from then on (jobs.py:37-51).                                           *)

(* The server's documents: up to two assignments, each one passenger to a  *)
(* known airport (the queried one included) for a pay of 1.                *)
FeedSizes == {0, 1, 2}

FeedPays == {"1.00"}

FeedJobs(icao) ==
    {[Location |-> icao, ToIcao |-> d, Amount |-> "1", Pay |-> p,
      UnitType |-> "passengers", Type |-> "Trip-Only"] :
        d \in Known, p \in FeedPays}

SeqsOf(S, sizes) == UNION {[1..k -> S] : k \in sizes}

ServerAnswers(icao) ==
    {XmlFile(TRUE, <<>>)} \cup {XmlFile(FALSE, js) : js \in SeqsOf(FeedJobs(icao), FeedSizes)}

InitSearch ==
    /\ start_icao \in Known
    /\ num_steps \in 1..MaxN
    /\ max_jobs \in 1..MaxB
    /\ max_routes \in 1..MaxW
    /\ allow_reverse \in BOOLEAN
    /\ files = [i \in Icaos |-> NoFile]
    /\ routes = <<>> /\ new_routes = <<>> /\ idx = 0 /\ step = 0
    /\ pc = "seed"
    /\ log = [fetches |-> 0, sizes |-> <<>>]
    /\ IdleCityPair /\ IdleSort /\ IdleJobs /\ IdleExtend

(* fse.get raises: get_jobs prints and calls exit() (jobs.py:40-46). *)
TransportFailure(icao) ==
    /\ ~files[icao].exists
    /\ pc' = "exit"
    /\ log' = [log EXCEPT !.fetches = @ + 1]
    /\ UNCHANGED <<files, routes, new_routes, idx, step>>

(* get_route, routes.py:68-80, up to the call of advance_route. *)
Seeded(file) ==
    LET cps == get_jobs(file, max_jobs)
        seeds == [i \in DOMAIN cps |-> Route(<<cps[i]>>)]
        kept == sort_routes(seeds, max_routes)
    IN  /\ files' = [files EXCEPT ![start_icao] = file]
        /\ log' = [fetches |-> log.fetches + 1,
                   sizes |-> IF AnyRaised(seeds) THEN log.sizes
                             ELSE Append(log.sizes, Len(seeds))]
        /\ IF AnyRaised(seeds)
           THEN pc' = "error" /\ UNCHANGED <<routes, new_routes, idx, step>>
           ELSE /\ routes' = kept
                /\ step' = 1
                /\ new_routes' = <<>>
                /\ idx' = 1
                /\ pc' = IF 1 < num_steps THEN "expand" ELSE "done"

GetRoute ==
    /\ pc = "seed"
    /\ \/ TransportFailure(start_icao)
       \/ \E file \in ServerAnswers(start_icao) : Seeded(file)
    /\ UNCHANGED <<start_icao, num_steps, max_jobs, max_routes, allow_reverse,
                   cpVars, sortVars, jobsVars, extVars>>

(* An expander that asks for the jobs of the last leg's origin. *)
LastIcao_origin == routes[idx].cps[Len(routes[idx].cps)].origin

(* routes.py:33-34: last_icao = old_route.cps[-1].destination *)
LastIcao == routes[idx].cps[Len(routes[idx].cps)].destination

(* advance_route, routes.py:31-47: one pass of `for old_route in routes`. *)
Expanded(file) ==
    LET old_route == routes[idx]
        last_icao == LastIcao
        cps == get_jobs(file, max_jobs)
        made == contribution(old_route, cps, allow_reverse)
    IN  /\ files' = [files EXCEPT ![last_icao] = file]
        /\ log' = [log EXCEPT !.fetches = @ + 1]
        /\ IF AnyRaised(made)
           THEN pc' = "error" /\ UNCHANGED <<new_routes, idx>>
           ELSE /\ new_routes' = new_routes \o made
                /\ idx' = idx + 1
                /\ pc' = pc
        /\ UNCHANGED <<routes, step>>

ExpandRoute ==
    /\ pc = "expand" /\ idx <= Len(routes)
    /\ IF files[LastIcao].exists
       THEN Expanded(files[LastIcao])
       ELSE \/ TransportFailure(LastIcao)
            \/ \E file \in ServerAnswers(LastIcao) : Expanded(file)
    /\ UNCHANGED <<start_icao, num_steps, max_jobs, max_routes, allow_reverse,
                   cpVars, sortVars, jobsVars, extVars>>

(* advance_route, routes.py:50-57: prune, count the step, recurse or return. *)
PruneAndRecurse ==
    /\ pc = "expand" /\ idx > Len(routes)
    /\ routes' = pruned(routes, new_routes, max_routes)
    /\ step' = step + 1
    /\ log' = [log EXCEPT !.sizes = Append(@, Len(new_routes))]
    /\ new_routes' = <<>>
    /\ idx' = 1
    /\ pc' = IF step + 1 < num_steps THEN "expand" ELSE "done"
    /\ UNCHANGED <<files, start_icao, num_steps, max_jobs, max_routes, allow_reverse,
                   cpVars, sortVars, jobsVars, extVars>>

Next == GetRoute \/ ExpandRoute \/ PruneAndRecurse

Spec == InitSearch /\ [][Next]_vars

-----------------------------------------------------------------------------
(* SpecJobs: the server's document for one airport is put together entry   *)
(* by entry, then get_jobs of airport.py or of jobs.py is called on it.    *)

JobTypes == {"Trip-Only", "All-In"}

JobPays == {"1.00", "2.00"}

Unparsable == "n/a"

Assignments(icao) ==
    {[Location |-> icao, ToIcao |-> d, Amount |-> "1", Pay |-> p,
      UnitType |-> "passengers", Type |-> t] :
        d \in {"B", "C"}, p \in JobPays, t \in JobTypes}
    \cup {[Location |-> icao, ToIcao |-> d, Amount |-> Unparsable, Pay |-> "1.00",
            UnitType |-> "passengers", Type |-> t] :
        d \in {"B", "C"}, t \in JobTypes}
    \cup {[Location |-> icao, ToIcao |-> icao, Amount |-> "1", Pay |-> "1.00",
            UnitType |-> "passengers", Type |-> "Trip-Only"]}

InitJobs ==
    /\ job_module \in {"airport", "jobs"}
    /\ job_icao \in {"A", "X"}
    /\ job_limit \in -1..MaxB
    /\ \E e \in BOOLEAN : job_file = XmlFile(e, <<>>)
    /\ job_out = <<>>
    /\ job_pc = "build"
    /\ IdleCityPair /\ IdleSort /\ IdleSearch /\ IdleExtend

(* The server lists one more <Assignment>. *)
AppendAssignment ==
    /\ job_pc = "build" /\ ~job_file.error /\ Len(job_file.jobs) < MaxFile
    /\ \E j \in Assignments(job_icao) :
          job_file' = [job_file EXCEPT !.jobs = Append(@, j)]
    /\ UNCHANGED <<job_module, job_icao, job_limit, job_out, job_pc,
                   cpVars, sortVars, searchVars, extVars>>

(* get_jobs(icao, max_jobs), the server having answered. *)
GetJobs ==
    /\ job_pc = "build"
    /\ job_out' = IF job_module = "airport"
                  THEN airport_get_jobs(job_icao, job_file, job_limit)
                  ELSE jobs_get_jobs(job_file, job_limit)
    /\ job_pc' = "called"
    /\ UNCHANGED <<job_module, job_icao, job_limit, job_file,
                   cpVars, sortVars, searchVars, extVars>>

(* get_jobs(icao, max_jobs), fse.get raising (airport.py:192-198,          *)
(* jobs.py:40-46); airport.py has returned before for an unknown airport.  *)
GetJobsExit ==
    /\ job_pc = "build"
    /\ job_module = "airport" => job_icao \in DOMAIN apt
    /\ job_out' = exited
    /\ job_pc' = "called"
    /\ UNCHANGED <<job_module, job_icao, job_limit, job_file,
                   cpVars, sortVars, searchVars, extVars>>

NextJobs == AppendAssignment \/ GetJobs \/ GetJobsExit

SpecJobs == InitJobs /\ [][NextJobs]_vars

Count(s, x) == Cardinality({i \in DOMAIN s : s[i] = x})

Elems(s) == {s[i] : i \in DOMAIN s}

IsPrefix(s, t) == Len(s) <= Len(t) /\ s = SubSeq(t, 1, Len(s))

(* The routes of s whose value-density equals q, in the order of s. *)
WithDensity(s, q) ==
    LET Same(r) == QEq(r.dollars_per_nm, q) IN SelectSeq(s, Same)

-----------------------------------------------------------------------------
(* SpecExtend: the inner loop of advance_route (routes.py:37-47) with the  *)
(* Python lists as objects.  heap[ref] is the content of the list object   *)
(* ref; Route.__init__ keeps the reference it is given (classes.py:81-82)  *)
(* and computes legs, value, length and dollars_per_nm once.               *)

(* list.copy(): a new list object with the same elements. *)
list_copy(h, ref) == [heap |-> Append(h, h[ref]), ref |-> Len(h) + 1]

(* `new_cps = old_route.cps`: no new object. *)
list_copy_alias(h, ref) == [heap |-> h, ref |-> ref]

(* routes.py:43: new_cps = old_route.cps.copy() *)
new_cps_of(h, ref) == list_copy(h, ref)

(* list.append(x): the list object changes in place. *)
list_append(h, ref, x) == [h EXCEPT ![ref] = Append(@, x)]

(* Route(new_cps), classes.py:79-95, on the list object ref. *)
RouteOn(h, ref) == [Route(h[ref]) EXCEPT !.cps = ref]

Leg(o, d) == add_pax(CityPair("classes", o, d), 1, 1)

(* The routes advance_route can be handed: one or two joined legs. *)
OldRoutes ==
    {<<Leg(p[1], p[2])>> : p \in {q \in Known \X Known : q[1] # q[2]}}
    \cup {<<Leg(t[1], t[2]), Leg(t[2], t[3])>> :
              t \in {u \in Known \X Known \X Known :
                        u[1] # u[2] /\ u[3] \notin {u[1], u[2]}}}

(* What get_jobs can return for the end of the route: CityPairs of         *)
(* different legs from there.                                              *)
CandidateLists(from) ==
    {cs \in SeqsOf({Leg(from, d) : d \in Known \ {from}}, 0..MaxB) :
        \A i, k \in DOMAIN cs : i # k => cs[i] # cs[k]}

InitExtend ==
    /\ \E old \in OldRoutes :
          /\ heap = <<old>>
          /\ ext_old = RouteOn(<<old>>, 1)
          /\ ext_cps \in CandidateLists(old[Len(old)].destination)
    /\ ext_i = 1
    /\ ext_new = <<>>
    /\ ext_reverse \in BOOLEAN
    /\ IdleCityPair /\ IdleSort /\ IdleSearch /\ IdleJobs

(* routes.py:39-42: continue *)
SkipLeg ==
    /\ ext_i \in DOMAIN ext_cps
    /\ ~accepts(ext_old, ext_cps[ext_i], ext_reverse)
    /\ ext_i' = ext_i + 1
    /\ UNCHANGED <<heap, ext_old, ext_cps, ext_new, ext_reverse,
                   cpVars, sortVars, searchVars, jobsVars>>

(* routes.py:43-47: copy, append, construct, collect. *)
AppendLeg ==
    /\ ext_i \in DOMAIN ext_cps
    /\ accepts(ext_old, ext_cps[ext_i], ext_reverse)
    /\ LET new_cps == new_cps_of(heap, ext_old.cps)
           h == list_append(new_cps.heap, new_cps.ref, ext_cps[ext_i])
       IN  /\ heap' = h
           /\ ext_new' = Append(ext_new, RouteOn(h, new_cps.ref))
    /\ ext_i' = ext_i + 1
    /\ UNCHANGED <<ext_old, ext_cps, ext_reverse,
                   cpVars, sortVars, searchVars, jobsVars>>

NextExtend == SkipLeg \/ AppendLeg

SpecExtend == InitExtend /\ [][NextExtend]_vars

(* C14: no step of the loop changes old_route (its list of legs, its legs  *)
(* seen, value, length, value-density), nor a route already in new_routes  *)
(* or that route's list of legs; each new route's list is the old route's  *)
(* legs and its own leg.                                                   *)
C14_NeverMutated ==
    [][/\ ext_old' = ext_old
       /\ heap'[ext_old.cps] = heap[ext_old.cps]
       /\ \A k \in DOMAIN ext_new :
             /\ ext_new'[k] = ext_new[k]
             /\ heap'[ext_new[k].cps] = heap[ext_new[k].cps]
       /\ \A k \in DOMAIN ext_new' :
             /\ SubSeq(heap'[ext_new'[k].cps], 1, Len(heap[ext_old.cps]))
                   = heap[ext_old.cps]
             /\ Len(heap'[ext_new'[k].cps]) = Len(heap[ext_old.cps]) + 1
             /\ RouteOn(heap', ext_new'[k].cps) = ext_new'[k]]_vars

C14_Witness ==
    /\ ext_i > Len(ext_cps)
    /\ Len(ext_new) = 2
    /\ Len(heap[ext_old.cps]) = 2
    /\ heap[ext_new[1].cps] # heap[ext_new[2].cps]

-----------------------------------------------------------------------------
(* SpecMain: main.py's own copy of the search.  Its CityPair has no        *)
(* __eq__, so `cp not in old_route.cps` compares objects by identity: an   *)
(* object carries the id it was given when get_assignments created it,     *)
(* <<number of the call, position in the dict>>.  Its Route has num_stops  *)
(* and no legs.  get_assignments only reads <icao>.xml: when the file is   *)
(* missing it downloads without writing it, and open() then raises.        *)

(* main.py:217-237: the CityPairs of one call, each a new object. *)
main_objects(cps, call) ==
    [k \in DOMAIN cps |-> [id |-> <<call, k>>] @@ cps[k]]

main_add_job(cps, j) ==
    LET ident == <<j.Location, j.ToIcao>>
        known == IF IndexOf(cps, ident) = 0
                 THEN Append(cps, CityPair("main", ident[1], ident[2]))
                 ELSE cps
        k == IndexOf(known, ident)
    IN  [known EXCEPT ![k] =
            IF j.UnitType = "kg" THEN add_cargo(@, int(j.Amount), int_float(j.Pay))
            ELSE IF j.Type = "VIP" THEN add_vip(@, int(j.Amount), int_float(j.Pay))
            ELSE add_pax(@, int(j.Amount), int_float(j.Pay))]

RECURSIVE main_aggregate(_, _)
main_aggregate(cps, jobs) ==
    IF jobs = <<>> THEN cps
    ELSE main_aggregate(main_add_job(cps, Head(jobs)), Tail(jobs))

(* main.py:209-241, from the parsed file on; an <Error> document has no    *)
(* <Assignment>.                                                           *)
get_assignments(file, limit, call) ==
    LET jobs == IF file.error THEN <<>> ELSE file.jobs
        sorted_cps == sorted_desc(main_objects(main_aggregate(<<>>, jobs), call))
    IN  Slice(sorted_cps, Min(Len(sorted_cps), limit))

(* main.py:90-106 *)
main_Route(city_pairs) ==
    LET value == SumSeq([i \in DOMAIN city_pairs |-> city_pairs[i].total_value])
        length == SumSeq([i \in DOMAIN city_pairs |-> city_pairs[i].length])
    IN  [cps |-> city_pairs,
         num_stops |-> Len(city_pairs),
         value |-> value,
         length |-> length,
         dollars_per_nm |-> Quot(value, length)]

(* main.py:267: cp not in old_route.cps *)
main_accepts(old_route, c) ==
    ~(\E i \in DOMAIN old_route.cps : old_route.cps[i].id = c.id)

(* main.py:265-273 *)
RECURSIVE main_extend(_, _)
main_extend(old_route, cps) ==
    IF cps = <<>> THEN <<>>
    ELSE (IF main_accepts(old_route, Head(cps))
          THEN <<main_Route(Append(old_route.cps, Head(cps)))>>
          ELSE <<>>) \o main_extend(old_route, Tail(cps))

InitMain ==
    /\ start_icao \in Known
    /\ num_steps \in 1..MaxN
    /\ max_jobs \in 1..MaxB
    /\ max_routes \in 1..MaxW
    /\ allow_reverse = FALSE
    /\ files = [i \in Icaos |-> NoFile]
    /\ routes = <<>> /\ new_routes = <<>>
    /\ idx = 0 /\ step = 0
    /\ pc = "seed"
    /\ log = [fetches |-> 0, sizes |-> <<>>]
    /\ IdleCityPair /\ IdleSort /\ IdleJobs /\ IdleExtend

(* main.py:191-203: no <icao>.xml on disk.  fse.get raises and the except  *)
(* branch exits, or the download succeeds, nothing is written, and open()  *)
(* raises FileNotFoundError.                                               *)
MainMissingFile(icao) ==
    /\ ~files[icao].exists
    /\ pc' \in {"exit", "error"}
    /\ log' = [log EXCEPT !.fetches = @ + 1]
    /\ UNCHANGED <<files, routes, new_routes, idx, step>>

(* main, main.py:305-316 *)
MainSeeded(file) ==
    LET cps == get_assignments(file, max_jobs, log.fetches)
        seeds == [i \in DOMAIN cps |-> main_Route(<<cps[i]>>)]
    IN  /\ files' = [files EXCEPT ![start_icao] = file]
        /\ IF AnyRaised(seeds)
           THEN /\ pc' = "error"
                /\ log' = [log EXCEPT !.fetches = @ + 1]
                /\ UNCHANGED <<routes, new_routes, idx, step>>
           ELSE /\ routes' = sort_routes(seeds, max_routes)
                /\ log' = [fetches |-> log.fetches + 1,
                           sizes |-> Append(log.sizes, Len(seeds))]
                /\ step' = 1
                /\ new_routes' = <<>>
                /\ idx' = 1
                /\ pc' = IF 1 < num_steps THEN "expand" ELSE "done"

Main ==
    /\ pc = "seed"
    /\ \/ MainMissingFile(start_icao)
       \/ \E file \in ServerAnswers(start_icao) : MainSeeded(file)
    /\ UNCHANGED <<start_icao, num_steps, max_jobs, max_routes, allow_reverse,
                   cpVars, sortVars, jobsVars, extVars>>

(* advance_route, main.py:259-273: one pass of `for old_route in routes`. *)
MainExpanded(file) ==
    LET cps == get_assignments(file, max_jobs, log.fetches)
        made == main_extend(routes[idx], cps)
    IN  /\ files' = [files EXCEPT ![LastIcao] = file]
        /\ log' = [log EXCEPT !.fetches = @ + 1]
        /\ IF AnyRaised(made)
           THEN pc' = "error" /\ UNCHANGED <<new_routes, idx>>
           ELSE /\ new_routes' = new_routes \o made
                /\ idx' = idx + 1
                /\ pc' = pc
        /\ UNCHANGED <<routes, step>>

MainExpandRoute ==
    /\ pc = "expand" /\ idx <= Len(routes)
    /\ IF files[LastIcao].exists
       THEN MainExpanded(files[LastIcao])
       ELSE \/ MainMissingFile(LastIcao)
            \/ \E file \in ServerAnswers(LastIcao) : MainExpanded(file)
    /\ UNCHANGED <<start_icao, num_steps, max_jobs, max_routes, allow_reverse,
                   cpVars, sortVars, jobsVars, extVars>>

(* advance_route, main.py:275-283 *)
MainPruneAndRecurse ==
    /\ pc = "expand" /\ idx > Len(routes)
    /\ routes' = sort_routes(new_routes, max_routes)
    /\ step' = step + 1
    /\ log' = [log EXCEPT !.sizes = Append(@, Len(new_routes))]
    /\ new_routes' = <<>>
    /\ idx' = 1
    /\ pc' = IF step + 1 < num_steps THEN "expand" ELSE "done"
    /\ UNCHANGED <<files, start_icao, num_steps, max_jobs, max_routes, allow_reverse,
                   cpVars, sortVars, jobsVars, extVars>>

NextMain == Main \/ MainExpandRoute \/ MainPruneAndRecurse

SpecMain == InitMain /\ [][NextMain]_vars

(* C19 as stated: in main.py no route holds two legs with the same         *)
(* (origin, destination): `cp not in old_route.cps` keeps a leg from being *)
(* taken twice.                                                            *)
C19_AsClaimed ==
    \A i \in DOMAIN routes : \A k, l \in DOMAIN routes[i].cps :
        k # l => <<routes[i].cps[k].origin, routes[i].cps[k].destination>>
                   # <<routes[i].cps[l].origin, routes[i].cps[l].destination>>

-----------------------------------------------------------------------------
(* Properties of get_jobs.                                                 *)

Pairs(jobs) == {<<jobs[k].Location, jobs[k].ToIcao>> : k \in DOMAIN jobs}

(* The value-density of a pair, from the pays of its entries. *)
RECURSIVE PayOf(_, _)
PayOf(jobs, ident) ==
    IF jobs = <<>> THEN 0
    ELSE (IF <<Head(jobs).Location, Head(jobs).ToIcao>> = ident
          THEN int_float(Head(jobs).Pay) ELSE 0) + PayOf(Tail(jobs), ident)

DensityOf(jobs, ident) ==
    IF find_range(ident[1], ident[2]) = 0 THEN Zero
    ELSE <<PayOf(jobs, ident), find_range(ident[1], ident[2])>>

(* The entries get_jobs aggregates: airport.py leaves the All-In ones out. *)
Aggregated ==
    IF job_file.error THEN <<>>
    ELSE IF job_module = "airport"
         THEN LET keep(j) == j.Type # "All-In" IN SelectSeq(job_file.jobs, keep)
         ELSE job_file.jobs

Returned == job_pc = "called" /\ job_out.outcome = "returned"

(* What C12 says of a list get_jobs returned, `jobs` being the airport's  *)
(* jobs.                                                                   *)
TopPairs(out, jobs, limit) ==
    /\ Len(out) = Min(limit, Cardinality(Pairs(jobs)))
    /\ \A i, k \in DOMAIN out : i # k => out[i].leg # out[k].leg
    /\ \A i \in DOMAIN out :
          /\ out[i].leg \in Pairs(jobs)
          /\ QEq(out[i].dollars_per_nm, DensityOf(jobs, out[i].leg))
    /\ \A i \in 1..(Len(out) - 1) :
          ~QLess(out[i].dollars_per_nm, out[i + 1].dollars_per_nm)
    /\ \A ident \in Pairs(jobs) \ {out[i].leg : i \in DOMAIN out} :
          \A i \in DOMAIN out :
              ~QLess(out[i].dollars_per_nm, DensityOf(jobs, ident))

WellFormed(jobs) ==
    LET parses(j) == ~ValueError(j) IN SelectSeq(jobs, parses)

C13_AsClaimed ==
    (job_pc = "called" /\ job_out.outcome # "exit" /\ AnyValueError(job_file.jobs))
    => /\ job_out.outcome = "returned"
       /\ LET rest == [job_file EXCEPT !.jobs = WellFormed(@)]
          IN  job_out = IF job_module = "airport"
                        THEN airport_get_jobs(job_icao, rest, job_limit)
                        ELSE jobs_get_jobs(rest, job_limit)

-----------------------------------------------------------------------------
(* Properties of the search.                                               *)

Searching == pc \in {"expand", "done"}

(* Every Route the expander holds: the beam and the generation under way. *)
Produced == Elems(routes) \cup Elems(new_routes)

EndOf(r) == r.cps[Len(r.cps)].destination

(* The legs get_jobs returned for route r's endpoint, once it was asked. *)
Candidates(r) == get_jobs(files[EndOf(r)], max_jobs)

(* The routes of the beam the for loop has been through. *)
Done == IF pc = "expand" THEN 1..(idx - 1) ELSE {}

Made(r, c) == Route(Append(r.cps, c)) \in Elems(new_routes)

(* C2: every Route of the expander has as many legs-seen as legs: no       *)
(* (origin, destination) occurs twice in one route.                        *)
C2_NoLegTwice ==
    \A r \in Produced :
        /\ Cardinality(r.legs) = Len(r.cps)
        /\ \A i, j \in DOMAIN r.cps : i # j => r.cps[i].leg # r.cps[j].leg

C2_Witness ==
    /\ pc = "expand" /\ new_routes # <<>>
    /\ \E i \in Done : \E c \in Elems(Candidates(routes[i])) :
          /\ c.leg \in routes[i].legs
          /\ c.origin # c.destination
          /\ Len(routes[i].cps) = 2

(* C3: with allow_reverse false no Route holds a leg and, at another       *)
(* position, its reverse; a candidate whose reverse is in legs-seen is     *)
(* rejected, and with allow_reverse true it is accepted unless it is an    *)
(* exact repeat.                                                           *)
C3_ReversePolicy ==
    /\ ~allow_reverse =>
          \A r \in Produced : \A i, j \in DOMAIN r.cps :
              i # j => r.cps[i].leg # Reverse(r.cps[j].leg)
    /\ \A i \in Done : \A c \in Elems(Candidates(routes[i])) :
          Reverse(c.leg) \in routes[i].legs =>
              IF allow_reverse
              THEN Made(routes[i], c) <=> c.leg \notin routes[i].legs
              ELSE ~Made(routes[i], c)

C3_Witness ==
    /\ pc = "expand" /\ ~allow_reverse /\ new_routes # <<>>
    /\ \E i \in Done : \E c \in Elems(Candidates(routes[i])) :
          /\ Reverse(c.leg) \in routes[i].legs
          /\ c.leg \notin routes[i].legs
          /\ ~Made(routes[i], c)

(* C8: once a whole generation is empty, the beam stays empty and the      *)
(* final result is empty: no route of an earlier generation comes back.    *)
C8_EmptyStaysEmpty ==
    (Searching /\ \E k \in DOMAIN log.sizes : log.sizes[k] = 0) =>
        /\ routes = <<>>
        /\ \A k, m \in DOMAIN log.sizes : (k <= m /\ log.sizes[k] = 0) => log.sizes[m] = 0

C8_Witness ==
    /\ pc = "done" /\ num_steps = 3 /\ routes = <<>>
    /\ Len(log.sizes) = 3 /\ log.sizes[1] = 2 /\ log.sizes[2] = 0

(* C9: a route without an eligible extension is dropped, not carried       *)
(* forward: the beam after step k holds routes of exactly k legs, the      *)
(* generation under way routes of k + 1 legs, and the final result routes  *)
(* of exactly num_steps legs.                                              *)
C9_ExactLength ==
    /\ Searching => \A r \in Elems(routes) : Len(r.cps) = step
    /\ Searching => \A r \in Elems(new_routes) : Len(r.cps) = step + 1
    /\ pc = "done" => step = num_steps
    /\ \A i \in Done : extend(routes[i], Candidates(routes[i]), allow_reverse) = <<>>
          => routes[i] \notin Elems(new_routes)

C9_Witness ==
    /\ pc = "expand" /\ step = 2 /\ num_steps = 3 /\ new_routes # <<>>
    /\ \E i \in Done :
          /\ Candidates(routes[i]) # <<>>
          /\ extend(routes[i], Candidates(routes[i]), allow_reverse) = <<>>

RECURSIVE ValueUpTo(_, _)
ValueUpTo(cps, n) ==
    IF n = 0 THEN 0 ELSE ValueUpTo(cps, n - 1) + cps[n].total_value

RECURSIVE LengthUpTo(_, _)
LengthUpTo(cps, n) ==
    IF n = 0 THEN 0
    ELSE LengthUpTo(cps, n - 1) + find_range(cps[n].origin, cps[n].destination)

(* C15: every Route of the expander has the sum of its legs' total_value   *)
(* as value and the sum of its legs' distances as length, and a route of   *)
(* the generation under way is an old route plus one leg L, with value     *)
(* old value + total_value(L) and length old length + length(L).           *)
C15_SumsOfLegs ==
    /\ \A r \in Produced :
          /\ r.value = ValueUpTo(r.cps, Len(r.cps))
          /\ r.length = LengthUpTo(r.cps, Len(r.cps))
    /\ \A nr \in Elems(new_routes) : \E i \in 1..(idx - 1) :
          LET L == nr.cps[Len(nr.cps)]
          IN  /\ nr.cps = Append(routes[i].cps, L)
              /\ nr.value = routes[i].value + L.total_value
              /\ nr.length = routes[i].length + L.length

C15_Witness ==
    /\ pc = "expand"
    /\ \E nr \in Elems(new_routes) :
          /\ Len(nr.cps) = 3
          /\ nr.value = 4
          /\ nr.length = 4
          /\ \E i \in DOMAIN nr.cps : nr.cps[i].total_value = 2

(* C16: the server answering a query for an airport only with jobs located *)
(* there, every Route of the expander starts at the start airport and each *)
(* leg starts where the leg before it ends.                                *)
C16_ConnectedPath ==
    (\A a \in Icaos : files[a].exists =>
        \A k \in DOMAIN files[a].jobs : files[a].jobs[k].Location = a)
    => \A r \in Produced :
          /\ r.cps[1].origin = start_icao
          /\ \A i \in 1..(Len(r.cps) - 1) :
                r.cps[i].destination = r.cps[i + 1].origin

C16_Witness ==
    /\ start_icao = "A"
    /\ \E r \in Elems(routes) :
          /\ Len(r.cps) = 3
          /\ r.cps[1].leg = <<"A", "B">>
          /\ r.cps[2].leg = <<"B", "C">>
          /\ r.cps[3].leg = <<"C", "A">>

C11_AsClaimed ==
    ~(pc = "exit" /\ step >= 1)

(* C18 as stated: constructing a Route never fails with a division error;  *)
(* every route the expander builds, zero-distance legs included, has a     *)
(* positive length and a defined value-density.                            *)
C18_AsClaimed ==
    /\ pc # "error"
    /\ \A r \in Produced : r.length > 0 /\ ~Raised(r)

C5_TopByDensity ==
    sort_pc = "sorted" =>
        /\ \A r \in Elems(sort_out) : Count(sort_out, r) <= Count(sort_in, r)
        /\ \A i, j \in DOMAIN sort_out :
              i < j => ~QLess(sort_out[i].dollars_per_nm, sort_out[j].dollars_per_nm)
        /\ \A r \in Elems(sort_in), k \in Elems(sort_out) :
              Count(sort_out, r) < Count(sort_in, r)
                  => ~QLess(k.dollars_per_nm, r.dollars_per_nm)

C5_Witness ==
    /\ sort_pc = "sorted" /\ Len(sort_in) = 3 /\ Len(sort_out) = 2
    /\ QLess(sort_in[1].dollars_per_nm, sort_in[2].dollars_per_nm)
    /\ QLess(sort_in[2].dollars_per_nm, sort_in[3].dollars_per_nm)
    /\ sort_out = <<sort_in[3], sort_in[2]>>

(* C6 as stated: of two routes of equal value-density the one with the     *)
(* larger aggregate value is ranked first.                                 *)
C6_AsClaimed ==
    sort_pc = "sorted" =>
        \A i, j \in DOMAIN sort_out :
            (i < j /\ QEq(sort_out[i].dollars_per_nm, sort_out[j].dollars_per_nm))
                => sort_out[i].value >= sort_out[j].value

(* C6, amended: routes of equal value-density keep their insertion order,  *)
(* whatever their aggregate values: the kept routes of one density are the *)
(* first of that density in the input, in input order.                     *)
C6_TiesKeepInsertionOrder ==
    sort_pc = "sorted" =>
        \A r \in Elems(sort_in) :
            IsPrefix(WithDensity(sort_out, r.dollars_per_nm),
                     WithDensity(sort_in, r.dollars_per_nm))

C6_Witness ==
    /\ sort_pc = "sorted" /\ Len(sort_out) >= 2
    /\ QEq(sort_out[1].dollars_per_nm, sort_out[2].dollars_per_nm)
    /\ sort_out[1].value < sort_out[2].value
    /\ sort_in[1] = sort_out[1] /\ sort_in[2] = sort_out[2]

(* C1: after every add_cargo / add_pax / add_vip call, total_value is the   *)
(* sum of the three category values and total_jobs the sum of the three    *)
(* category job counts.                                                    *)
C1_TotalsAreSums ==
    /\ cp.total_value = cp.cargo_value + cp.pax_value + cp.vip_value
    /\ cp.total_jobs = cp.cargo_jobs + cp.pax_jobs + cp.vip_jobs

C1_Witness ==
    /\ cp.cargo_jobs >= 1 /\ cp.pax_jobs >= 1 /\ cp.vip_jobs >= 1
    /\ cp.cargo_value > 0 /\ cp.pax_value > 0 /\ cp.vip_value > 0
    /\ cp.total_jobs = 3

====
